---- MODULE Spec2Model ----
\* Model of eww.quitterproxy: QuitterProxy (a threading.local based proxy that
\* replaces the quit/exit builtins) and safe_quit.  Several threads share one
\* proxy; each step of a thread (entry with the attribute lookup, call of the
\* quit method, except handler) is one action, so other threads interleave between them.
EXTENDS Naturals, Sequences, FiniteSets, TLC

\* ---------------------------------------------------------------- bounds
NumThreads == 2

Threads == 1..NumThreads

\* The thread that constructs the proxy (the host's builtin installer).
Main == 1

\* ---------------------------------------------------------------- values
\* The attribute `quit` is missing from the calling thread's threading.local.
NoEntry == "<no quit attribute>"

\* No QuitterProxy has been constructed yet.
NotConstructed == "<not constructed>"

\* Exit codes handed to the proxy ("None" is Python's None, the default).
Codes == {"None", "5"}

\* Quit methods handed to QuitterProxy(...) and register(...):
\*   safe_quit              the module's own safe_quit
\*   builtin_quit           the interpreter's quit: closes stdin, raises SystemExit
\*   returns_none           a custom method that returns normally
\*   raises_attribute_error a custom method whose body raises AttributeError(code)
Behaviors == {"safe_quit", "builtin_quit", "returns_none", "raises_attribute_error"}

Pending == [exc |-> "pending", payload |-> "None"]
Returned == [exc |-> "none", payload |-> "None"]

VARIABLES
    original_quit,  \* self.original_quit
    quit_routes,    \* self.quit_routes: per thread, the attribute `quit` or NoEntry
    stdin_open,     \* sys.stdin is open
    pc,             \* per thread: "idle", "dispatch", "except"
    op,             \* per thread: the operation in progress or last completed
    code,           \* per thread: the argument `code` of the invocation
    target,         \* per thread: the bound value of self.quit_routes.quit
    calls,          \* per thread: the quit methods called by the invocation, in order
    outcome,        \* per thread: what the caller of the operation observes
    logged,         \* per thread: the operation emitted the LOGGER.debug record
    lastreg,        \* history: the thread's latest construct/register/unregister
    regd,           \* history: the quit method the thread's own calls left registered
    over,           \* history: the thread's latest operation was a register that
                    \* replaced another method
    passed          \* history: the argument QuitterProxy(...) was constructed with

vars == <<original_quit, quit_routes, stdin_open, pc, op, code, target, calls,
          outcome, logged, lastreg, regd, over, passed>>

\* ---------------------------------------------------------------- quit methods
\* A safe_quit that closes stdin as the builtin quit does.
safe_quit_closing(c, stdin) == [exc |-> "SystemExit", payload |-> c, stdin |-> FALSE]

\* safe_quit(code): raise SystemExit(code); stdin is not touched.
safe_quit(c, stdin) == [exc |-> "SystemExit", payload |-> c, stdin |-> stdin]

\* The interpreter's quit/exit: close stdin, then raise SystemExit(code).
builtin_quit(c, stdin) == [exc |-> "SystemExit", payload |-> c, stdin |-> FALSE]

\* A custom quit method that returns normally.
returns_none(c, stdin) == [exc |-> "none", payload |-> "None", stdin |-> stdin]

\* A custom quit method that raises AttributeError(code) from its body.
raises_attribute_error(c, stdin) ==
    [exc |-> "AttributeError", payload |-> c, stdin |-> stdin]

\* quit_method(code): what calling the quit method b does.
CallQuit(b, c, stdin) ==
    CASE b = "safe_quit" -> safe_quit(c, stdin)
      [] b = "builtin_quit" -> builtin_quit(c, stdin)
      [] b = "returns_none" -> returns_none(c, stdin)
      [] b = "raises_attribute_error" -> raises_attribute_error(c, stdin)

\* ---------------------------------------------------------------- thread-local storage
\* threading.local(): no thread has any attribute.
NewLocal == [t \in Threads |-> NoEntry]

\* A register that stores the method on a plain object shared by all threads.
register_shared(routes, t, quit_method) == [x \in Threads |-> quit_method]

\* A register that keeps the method the thread has already registered.
register_first(routes, t, quit_method) ==
    IF routes[t] = NoEntry THEN [routes EXCEPT ![t] = quit_method] ELSE routes

\* self.quit_routes.quit = quit_method, executed by thread t.
register(routes, t, quit_method) == [routes EXCEPT ![t] = quit_method]

\* An unregister without the try/except: the AttributeError of del escapes.
unregister_raises(routes, t) ==
    IF routes[t] = NoEntry
    THEN [routes |-> routes, exc |-> "AttributeError", logged |-> FALSE]
    ELSE [routes |-> [routes EXCEPT ![t] = NoEntry], exc |-> "none", logged |-> FALSE]

\* An unregister that leaves the thread's method in place.
unregister_keeps(routes, t) == [routes |-> routes, exc |-> "none", logged |-> FALSE]

\* try: del self.quit_routes.quit / except AttributeError: LOGGER.debug(...)
unregister(routes, t) ==
    IF routes[t] = NoEntry
    THEN [routes |-> routes, exc |-> "none", logged |-> TRUE]
    ELSE [routes |-> [routes EXCEPT ![t] = NoEntry], exc |-> "none", logged |-> FALSE]

\* What the caller observes when the operation `how` ends with the quit method's
\* result r: an exception propagates; on a normal return __call__ returns None,
\* and __repr__ hands that None to repr(), which raises TypeError.
Deliver(how, r) ==
    IF r.exc # "none" THEN [exc |-> r.exc, payload |-> r.payload]
    ELSE IF how = "repr"
         THEN [exc |-> "TypeError", payload |-> "__repr__ returned non-string"]
         ELSE Returned

\* ---------------------------------------------------------------- operations
TypeOK ==
    /\ original_quit \in Behaviors \cup {NotConstructed}
    /\ quit_routes \in [Threads -> Behaviors \cup {NoEntry}]
    /\ stdin_open \in BOOLEAN
    /\ pc \in [Threads -> {"idle", "dispatch", "except"}]
    /\ op \in [Threads -> {"none", "construct", "register", "unregister", "call", "repr"}]
    /\ code \in [Threads -> Codes]
    /\ target \in [Threads -> Behaviors \cup {NoEntry}]
    /\ \A t \in Threads : Len(calls[t]) <= 2
    /\ logged \in [Threads -> BOOLEAN]
    /\ lastreg \in [Threads -> {"none", "construct", "register", "unregister"}]
    /\ regd \in [Threads -> Behaviors \cup {NoEntry}]
    /\ over \in [Threads -> BOOLEAN]
    /\ passed \in Behaviors \cup {NotConstructed}

Init ==
    /\ original_quit = NotConstructed
    /\ quit_routes = NewLocal
    /\ stdin_open = TRUE
    /\ pc = [t \in Threads |-> "idle"]
    /\ op = [t \in Threads |-> "none"]
    /\ code = [t \in Threads |-> "None"]
    /\ target = [t \in Threads |-> NoEntry]
    /\ calls = [t \in Threads |-> << >>]
    /\ outcome = [t \in Threads |-> Returned]
    /\ logged = [t \in Threads |-> FALSE]
    /\ lastreg = [t \in Threads |-> "none"]
    /\ regd = [t \in Threads |-> NoEntry]
    /\ over = [t \in Threads |-> FALSE]
    /\ passed = NotConstructed

\* The thread's operation `how` ends at once with exception exc ("none": it
\* returns None): nothing of an earlier invocation remains.
Completed(t, how, exc, log) ==
    /\ op' = [op EXCEPT ![t] = how]
    /\ code' = [code EXCEPT ![t] = "None"]
    /\ target' = [target EXCEPT ![t] = NoEntry]
    /\ calls' = [calls EXCEPT ![t] = << >>]
    /\ outcome' = [outcome EXCEPT ![t] = [exc |-> exc, payload |-> "None"]]
    /\ logged' = [logged EXCEPT ![t] = log]

\* An __init__ that stores original_quit without registering it.
Construct_unregistered(quit_method) ==
    /\ original_quit = NotConstructed
    /\ original_quit' = quit_method
    /\ quit_routes' = NewLocal
    /\ Completed(Main, "construct", "none", FALSE)
    /\ lastreg' = [lastreg EXCEPT ![Main] = "construct"]
    /\ regd' = [regd EXCEPT ![Main] = quit_method]
    /\ passed' = quit_method
    /\ UNCHANGED <<stdin_open, pc, over>>

\* QuitterProxy.__init__(original_quit), run by the thread Main.
Construct(quit_method) ==
    /\ original_quit = NotConstructed
    /\ original_quit' = quit_method
    /\ quit_routes' = register(NewLocal, Main, quit_method)
    /\ Completed(Main, "construct", "none", FALSE)
    /\ lastreg' = [lastreg EXCEPT ![Main] = "construct"]
    /\ regd' = [regd EXCEPT ![Main] = quit_method]
    /\ passed' = quit_method
    /\ UNCHANGED <<stdin_open, pc, over>>

\* A register that also stores the method as self.original_quit.
Register_as_default(t, quit_method) ==
    /\ original_quit # NotConstructed
    /\ pc[t] = "idle"
    /\ quit_routes' = register(quit_routes, t, quit_method)
    /\ original_quit' = quit_method
    /\ Completed(t, "register", "none", FALSE)
    /\ lastreg' = [lastreg EXCEPT ![t] = "register"]
    /\ regd' = [regd EXCEPT ![t] = quit_method]
    /\ over' = [over EXCEPT ![t] = quit_routes[t] \notin {NoEntry, quit_method}]
    /\ UNCHANGED <<stdin_open, pc, passed>>

\* QuitterProxy.register(quit_method), run by thread t.
Register(t, quit_method) ==
    /\ original_quit # NotConstructed
    /\ pc[t] = "idle"
    /\ quit_routes' = register(quit_routes, t, quit_method)
    /\ Completed(t, "register", "none", FALSE)
    /\ lastreg' = [lastreg EXCEPT ![t] = "register"]
    /\ regd' = [regd EXCEPT ![t] = quit_method]
    /\ over' = [over EXCEPT ![t] = quit_routes[t] \notin {NoEntry, quit_method}]
    /\ UNCHANGED <<original_quit, stdin_open, pc, passed>>

\* QuitterProxy.unregister(), run by thread t.
Unregister(t) ==
    /\ original_quit # NotConstructed
    /\ pc[t] = "idle"
    /\ LET r == unregister(quit_routes, t) IN
        /\ quit_routes' = r.routes
        /\ Completed(t, "unregister", r.exc, r.logged)
    /\ lastreg' = [lastreg EXCEPT ![t] = "unregister"]
    /\ regd' = [regd EXCEPT ![t] = NoEntry]
    /\ over' = [over EXCEPT ![t] = FALSE]
    /\ UNCHANGED <<original_quit, stdin_open, pc, passed>>

\* A __call__ that takes a lock held until the invocation ends: it waits while
\* another thread is inside an invocation.
Begin_locked(t, how, c) ==
    /\ original_quit # NotConstructed
    /\ pc[t] = "idle"
    /\ \A u \in Threads \ {t} : pc[u] = "idle"
    /\ pc' = [pc EXCEPT ![t] = IF quit_routes[t] = NoEntry THEN "except" ELSE "dispatch"]
    /\ target' = [target EXCEPT ![t] = quit_routes[t]]
    /\ op' = [op EXCEPT ![t] = how]
    /\ code' = [code EXCEPT ![t] = c]
    /\ calls' = [calls EXCEPT ![t] = << >>]
    /\ outcome' = [outcome EXCEPT ![t] = Pending]
    /\ logged' = [logged EXCEPT ![t] = FALSE]
    /\ over' = [over EXCEPT ![t] = FALSE]
    /\ UNCHANGED <<original_quit, quit_routes, stdin_open, lastreg, regd, passed>>

\* Thread t enters __call__(code) and, inside the try block, evaluates the
\* attribute self.quit_routes.quit: a missing attribute raises AttributeError,
\* which the except clause handles.
Begin(t, how, c) ==
    /\ original_quit # NotConstructed
    /\ pc[t] = "idle"
    /\ pc' = [pc EXCEPT ![t] = IF quit_routes[t] = NoEntry THEN "except" ELSE "dispatch"]
    /\ target' = [target EXCEPT ![t] = quit_routes[t]]
    /\ op' = [op EXCEPT ![t] = how]
    /\ code' = [code EXCEPT ![t] = c]
    /\ calls' = [calls EXCEPT ![t] = << >>]
    /\ outcome' = [outcome EXCEPT ![t] = Pending]
    /\ logged' = [logged EXCEPT ![t] = FALSE]
    /\ over' = [over EXCEPT ![t] = FALSE]
    /\ UNCHANGED <<original_quit, quit_routes, stdin_open, lastreg, regd, passed>>

\* proxy(code)
Call(t, c) == Begin(t, "call", c)

\* repr(proxy): __repr__ runs self(), so code takes its default None.
Repr(t) == Begin(t, "repr", "None")

\* The invocation of thread t ends with the quit method's result r.
Finish(t, r) ==
    /\ pc' = [pc EXCEPT ![t] = "idle"]
    /\ outcome' = [outcome EXCEPT ![t] = Deliver(op[t], r)]

\* A __call__ that consumes the registration it dispatches to.
Dispatch_unregisters(t) ==
    /\ pc[t] = "dispatch"
    /\ LET r == CallQuit(target[t], code[t], stdin_open) IN
        /\ calls' = [calls EXCEPT ![t] = Append(@, <<target[t], code[t]>>)]
        /\ stdin_open' = r.stdin
        /\ IF r.exc = "AttributeError"
           THEN /\ pc' = [pc EXCEPT ![t] = "except"]
                /\ UNCHANGED outcome
           ELSE Finish(t, r)
    /\ quit_routes' = [quit_routes EXCEPT ![t] = NoEntry]
    /\ UNCHANGED <<original_quit, op, code, target, logged,
                   lastreg, regd, over, passed>>

\* (...)(code) : the call of the looked-up method, still inside the try block,
\* so an AttributeError raised by the method enters the except clause.
Dispatch(t) ==
    /\ pc[t] = "dispatch"
    /\ LET r == CallQuit(target[t], code[t], stdin_open) IN
        /\ calls' = [calls EXCEPT ![t] = Append(@, <<target[t], code[t]>>)]
        /\ stdin_open' = r.stdin
        /\ IF r.exc = "AttributeError"
           THEN /\ pc' = [pc EXCEPT ![t] = "except"]
                /\ UNCHANGED outcome
           ELSE Finish(t, r)
    /\ UNCHANGED <<original_quit, quit_routes, op, code, target, logged,
                   lastreg, regd, over, passed>>

\* An except clause that swallows the AttributeError: `pass`.
Except_pass(t) ==
    /\ pc[t] = "except"
    /\ Finish(t, [exc |-> "none", payload |-> "None", stdin |-> stdin_open])
    /\ UNCHANGED <<original_quit, quit_routes, stdin_open, op, code, target, calls,
                   logged, lastreg, regd, over, passed>>

\* except AttributeError: self.original_quit(code)
Except(t) ==
    /\ pc[t] = "except"
    /\ LET r == CallQuit(original_quit, code[t], stdin_open) IN
        /\ calls' = [calls EXCEPT ![t] = Append(@, <<original_quit, code[t]>>)]
        /\ stdin_open' = r.stdin
        /\ Finish(t, r)
    /\ UNCHANGED <<original_quit, quit_routes, op, code, target, logged,
                   lastreg, regd, over, passed>>

Next ==
    \/ \E b \in Behaviors : Construct(b)
    \/ \E t \in Threads, b \in Behaviors : Register(t, b)
    \/ \E t \in Threads : Unregister(t)
    \/ \E t \in Threads, c \in Codes : Call(t, c)
    \/ \E t \in Threads : Repr(t)
    \/ \E t \in Threads : Dispatch(t)
    \/ \E t \in Threads : Except(t)

Spec == Init /\ [][Next]_vars

\* The threads are preemptively scheduled: a thread inside an invocation is
\* eventually given the processor for its next step.
Fairness == \A t \in Threads : WF_vars(Dispatch(t)) /\ WF_vars(Except(t))

SpecFair == Spec /\ Fairness

\* ---------------------------------------------------------------- properties
\* Thread t has completed an invocation of the proxy (proxy(code) or repr(proxy)).
Done(t) == pc[t] = "idle" /\ op[t] \in {"call", "repr"}

SystemExit(c) == [exc |-> "SystemExit", payload |-> c]

\* The step is the call of the looked-up method by thread t, or t's except
\* clause.  (The leading conjuncts follow from the action; they only let the
\* evaluation stop early.)
Dispatches(t) == pc[t] = "dispatch" /\ pc'[t] # "dispatch" /\ Dispatch(t)
Excepts(t) == pc[t] = "except" /\ pc'[t] = "idle" /\ Except(t)

\* Thread t is inside an invocation or has completed one.
Invoked(t) == op[t] \in {"call", "repr"}

\* C1: after thread t registered B, an invocation made by t (before t registers
\* again or unregisters) looks up B and calls B with the code it was given,
\* whatever the other threads registered, unregistered or invoked meanwhile.
C1_RegisteredResolves ==
    \A t \in Threads :
        lastreg[t] = "register" =>
            /\ pc[t] = "dispatch" => target[t] = regd[t]
            /\ pc[t] # "dispatch" /\ op[t] \in {"call", "repr"} =>
                   /\ Len(calls[t]) >= 1
                   /\ calls[t][1] = <<regd[t], code[t]>>

C1_Witness ==
    \E t \in Threads, u \in Threads :
        /\ t # u
        /\ Done(t) /\ lastreg[t] = "register" /\ regd[t] # original_quit
        /\ calls[t][1][1] = regd[t]
        /\ lastreg[u] = "register" /\ regd[u] # regd[t]

\* What an invocation made by thread t now would resolve to.
Resolution(t) == IF quit_routes[t] = NoEntry THEN original_quit ELSE quit_routes[t]

\* C2: the entry of every thread u is always the one u's own register and
\* unregister calls left (regd is written by u's calls alone), so no call of
\* another thread ever changes it; the method u holds between its lookup and
\* its dispatch, and the method its invocation calls first, are that same
\* entry (original_quit when u has none), whatever other threads did meanwhile.
C2_ThreadIsolation ==
    \A u \in Threads :
        /\ quit_routes[u] = regd[u]
        /\ Invoked(u) =>
              /\ target[u] = regd[u]
              /\ calls[u] # << >> =>
                    calls[u][1] = <<Resolution(u), code[u]>>

C2_Witness ==
    \E t \in Threads, u \in Threads :
        /\ t # u
        /\ pc[u] = "dispatch" /\ target[u] = regd[u]
        /\ pc[t] = "idle" /\ op[t] \in {"register", "unregister"}
        /\ quit_routes[t] # target[u]

\* C3: an invocation with code c by a thread that has no entry calls
\* original_quit(c) and nothing else, also while other threads hold entries.
C3_NoEntryResolvesDefault ==
    \A t \in Threads :
        Done(t) /\ quit_routes[t] = NoEntry =>
            calls[t] = << <<original_quit, code[t]>> >>

C3_Witness ==
    \E a \in Threads, b \in Threads :
        /\ a # b
        /\ quit_routes[a] = "safe_quit" /\ original_quit = "builtin_quit"
        /\ Done(a) /\ calls[a] = << <<"safe_quit", code[a]>> >>
        /\ quit_routes[b] = NoEntry /\ lastreg[b] = "none"
        /\ Done(b) /\ calls[b] = << <<"builtin_quit", "None">> >>

\* C4: the invocation that follows an unregister of thread t calls
\* original_quit(code) and nothing else, whatever t had registered before and
\* whatever the other threads have registered.
C4_AfterUnregisterDefault ==
    \A t \in Threads :
        lastreg[t] = "unregister" /\ op[t] \in {"call", "repr"} =>
            /\ target[t] = NoEntry
            /\ pc[t] # "dispatch"
            /\ Done(t) => calls[t] = << <<original_quit, code[t]>> >>

C4_Witness ==
    \E u \in Threads \ {Main} :
        /\ lastreg[Main] = "unregister" /\ Done(Main)
        /\ calls[Main] = << <<original_quit, code[Main]>> >>
        /\ quit_routes[u] \notin {NoEntry, original_quit}

\* C5: whatever the method an invocation resolved to raises reaches the invoker
\* unchanged (same exception, same payload), and no other method is run.
C5_ExceptionPropagatesUnchanged ==
    \A t \in Threads :
        Done(t) =>
            LET r == CallQuit(calls[t][1][1], code[t], stdin_open) IN
                /\ Len(calls[t]) = 1
                /\ r.exc # "none" => outcome[t] = [exc |-> r.exc, payload |-> r.payload]

\* C6: an unregister returns normally also when the thread has no entry (the
\* case that logs); after it the thread has no entry, every other thread's
\* entry is the one its own calls left and original_quit is the constructor's
\* argument: a second unregister finds and leaves that same state.
C6_UnregisterMissingIsNoop ==
    \A t \in Threads :
        pc[t] = "idle" /\ op[t] = "unregister" =>
            /\ outcome[t] = Returned
            /\ quit_routes[t] = NoEntry
            /\ \A u \in Threads \ {t} : quit_routes[u] = regd[u]
            /\ original_quit = passed

C6_Witness ==
    \E t \in Threads, u \in Threads :
        /\ t # u
        /\ op[t] = "unregister" /\ logged[t] /\ outcome[t] = Returned
        /\ quit_routes[t] = NoEntry
        /\ quit_routes[u] # NoEntry

\* C7: repr(proxy) has the effect of proxy(): whenever the two called the same
\* method with code None, their callers observe the same outcome.
C7_ReprSameAsCall ==
    \A t \in Threads, u \in Threads :
        /\ Done(t) /\ op[t] = "call" /\ code[t] = "None"
        /\ Done(u) /\ op[u] = "repr"
        /\ calls[t] = calls[u]
        => /\ code[u] = "None"
           /\ outcome[u] = outcome[t]

\* C8: a call of safe_quit(code), from the dispatch or from the except clause,
\* raises SystemExit carrying exactly code and leaves stdin as it was.
C8_SafeQuitKeepsStdin ==
    [][\A t \in Threads :
          \/ target[t] = "safe_quit" /\ Dispatches(t)
          \/ original_quit = "safe_quit" /\ Excepts(t)
          => /\ stdin_open' = stdin_open
             /\ outcome'[t] = SystemExit(code[t])
      ]_vars

C8_Witness ==
    \E t \in Threads :
        /\ Done(t) /\ code[t] = "5"
        /\ calls[t] = << <<"safe_quit", "5">> >>
        /\ outcome[t] = SystemExit("5")
        /\ stdin_open

\* No thread has called register or unregister since the proxy was constructed.
FreshlyConstructed ==
    /\ original_quit # NotConstructed
    /\ \A t \in Threads : lastreg[t] \in {"none", "construct"}

\* C9: as long as no thread has registered or unregistered since construction,
\* the constructing thread holds the entry original_quit, no other thread holds
\* an entry, and every invocation calls original_quit first.
C9_ConstructRegistersDefault ==
    FreshlyConstructed =>
        /\ quit_routes[Main] = original_quit
        /\ \A t \in Threads \ {Main} : quit_routes[t] = NoEntry
        /\ \A t \in Threads :
              /\ pc[t] = "dispatch" => t = Main /\ target[t] = original_quit
              /\ pc[t] = "except" /\ calls[t] = << >> => t # Main
              /\ Done(t) => calls[t][1] = <<original_quit, code[t]>>

C9_Witness ==
    \E u \in Threads \ {Main} :
        /\ FreshlyConstructed
        /\ Done(Main) /\ calls[Main][1][1] = original_quit
        /\ Done(u) /\ calls[u][1][1] = original_quit

\* C10: a thread holds one entry, the method of its latest register, also when
\* that register replaced another method; after an unregister it holds none,
\* and an invocation then looks up nothing and calls only original_quit.
C10_RegistrationsDoNotNest ==
    \A t \in Threads :
        /\ over[t] => lastreg[t] = "register"
        /\ lastreg[t] = "register" =>
              /\ quit_routes[t] = regd[t]
              /\ Invoked(t) => target[t] = regd[t]
        /\ lastreg[t] = "unregister" =>
              /\ quit_routes[t] = NoEntry
              /\ Invoked(t) =>
                    /\ target[t] = NoEntry
                    /\ \A i \in 1..Len(calls[t]) : calls[t][i][1] = original_quit

C10_Witness ==
    \E t \in Threads \ {Main} :
        /\ over[t] /\ lastreg[t] = "register"
        /\ pc[t] = "idle" /\ op[t] = "register"
        /\ quit_routes[t] = regd[t] /\ regd[t] # original_quit

\* C11: original_quit is written by the constructor alone: in every state it
\* is the method QuitterProxy(...) was constructed with, whatever register,
\* unregister and invocation steps the threads have taken since.
C11_DefaultNeverChanges == original_quit = passed

C11_Witness ==
    \E t \in Threads, u \in Threads :
        /\ t # u
        /\ passed \in Behaviors /\ original_quit = passed
        /\ lastreg[t] = "register" /\ regd[t] # passed /\ Done(t)
        /\ lastreg[u] = "unregister" /\ Done(u)

\* C12: once the proxy is constructed, no operation of a thread waits for
\* another thread: an idle thread can register, unregister and invoke (by a
\* call or through repr) whatever the other threads are in the middle of, and a thread inside an invocation can always take its next
\* step: the call of the method it looked up, or, when it found no entry or
\* that call raised AttributeError, the call of original_quit, which ends the
\* invocation.
C12_NoOperationWaits ==
    original_quit # NotConstructed =>
        \A t \in Threads :
            /\ pc[t] = "idle" =>
                  /\ ENABLED (\E b \in Behaviors : Register(t, b))
                  /\ ENABLED Unregister(t)
                  /\ ENABLED (\E c \in Codes : Call(t, c))
                  /\ ENABLED Repr(t)
            /\ pc[t] = "dispatch" =>
                  /\ calls[t] = << >>
                  /\ target[t] = quit_routes[t] /\ target[t] \in Behaviors
                  /\ ENABLED Dispatch(t)
            /\ pc[t] = "except" =>
                  /\ calls[t] = << >> => quit_routes[t] = NoEntry
                  /\ Len(calls[t]) <= 1
                  /\ ENABLED Except(t)

C12_Witness ==
    \E t \in Threads, u \in Threads :
        /\ t # u
        /\ pc[t] = "dispatch" /\ pc[u] = "except"
        /\ ENABLED Dispatch(t) /\ ENABLED Except(u)

\* C13: a completed invocation with code c has called exactly one method,
\* exactly once, with c: the thread's entry, or original_quit when it has none.
C13_ExactlyOneCall ==
    \A t \in Threads :
        Done(t) => calls[t] = << <<Resolution(t), code[t]>> >>

\* Thread t enters an invocation in this step.
Enters(t) == pc[t] = "idle" /\ pc'[t] # "idle" /\ Begin(t, op'[t], code'[t])

\* A step belongs to an invocation exactly when it moves a thread's position:
\* the entry into __call__ with its lookup, the call of the looked-up method,
\* the except clause.  __init__, register and unregister are single steps that
\* leave every position at "idle".
InvocationStep == pc' # pc

InvocationStepIsCallStep ==
    [][InvocationStep <=>
          \E t \in Threads : Enters(t) \/ Dispatches(t) \/ Excepts(t)]_vars

\* C14: no step of an invocation (the entry with its lookup, the call of the
\* looked-up method, the except clause) changes any thread's entry or
\* original_quit, whether the called method returns or raises.
C14_InvokeKeepsRegistrations ==
    [][InvocationStep =>
          /\ quit_routes' = quit_routes
          /\ original_quit' = original_quit
      ]_vars

C14_Witness ==
    \E t \in Threads, u \in Threads :
        /\ t # u
        /\ Done(t) /\ outcome[t] = Returned /\ calls[t] # << >>
        /\ quit_routes[t] = target[t] /\ target[t] = "returns_none"
        /\ Done(u) /\ outcome[u].exc = "SystemExit"
        /\ quit_routes[u] = target[u] /\ target[u] \in Behaviors

====
